---- MODULE Spec2Model ----
(***************************************************************************)
(* Assignment statement builders of xapicaliper                            *)
(* (lib/statements/assignment.js): create, view, submit, grade, feedback.  *)
(* Each builder validates the statement metadata against its rule set,     *)
(* and either hands the validation error to the callback or passes a       *)
(* statement descriptor (verb, XAPI template, CALIPER template) on to      *)
(* StatementUtil.processStatement.  StatementUtil (lib/util.js), the verb  *)
(* table and the transport are not part of lib/statements/assignment.js;   *)
(* they are modelled from the written specification.                       *)
(***************************************************************************)
EXTENDS Integers, Sequences, FiniteSets, TLC

\* Per call c (one invocation of a builder):
\*   pc[c]               "idle", "sent" (handed to the transport, callback
\*                       pending), "done", or "threw"
\*   op[c]               the builder invoked
\*   args[c]             the arguments as the caller passed them
\*   config[c], statement[c]   the caller's objects as the call leaves them
\*   validationError[c]  what validate returned
\*   work[c]             identifiers derived and entities rendered by the builder
\*   processed[c]        the descriptors handed to processStatement
\*   transport[c]        the statements handed to the transport
\*   callbackLog[c]      the invocations of the caller's callback
VARIABLES pc, op, args, config, statement, validationError, work,
          processed, transport, callbackLog

vars == <<pc, op, args, config, statement, validationError, work,
          processed, transport, callbackLog>>

(***************************************************************************)
(* JavaScript values.  Every value is a record of one shape, so that any   *)
(* two values can be compared: kind is the runtime type, s the text of a   *)
(* string, date, array or person, n/d the reduced fraction of a number.    *)
(***************************************************************************)
Undefined == [kind |-> "undefined", s |-> "", n |-> 0, d |-> 1]

Null == [kind |-> "null", s |-> "", n |-> 0, d |-> 1]

NaN == [kind |-> "number", s |-> "NaN", n |-> 0, d |-> 1]

True == [kind |-> "boolean", s |-> "true", n |-> 1, d |-> 1]

Str(x) == [kind |-> "string", s |-> x, n |-> 0, d |-> 1]

Num(a) == [kind |-> "number", s |-> "", n |-> a, d |-> 1]

DateOf(x) == [kind |-> "date", s |-> x, n |-> 0, d |-> 1]

ArrayOf(x) == [kind |-> "array", s |-> x, n |-> 0, d |-> 1]

Abs(a) == IF a < 0 THEN -a ELSE a

RECURSIVE Gcd(_, _)
Gcd(a, b) == IF b = 0 THEN a ELSE Gcd(b, a % b)

\* The number p/q (q # 0) as a reduced fraction with a positive denominator.
Fraction(p, q) ==
  LET g == Gcd(Abs(p), Abs(q))
      sgn == IF q < 0 THEN -1 ELSE 1
  IN [kind |-> "number", s |-> "", n |-> (sgn * p) \div g, d |-> Abs(q) \div g]

\* JavaScript's a / b on two values: a number divided by a non-zero number
\* is their quotient; anything else met here yields NaN.
Divide(a, b) ==
  IF a.kind = "number" /\ b.kind = "number" /\ a.s = "" /\ b.s = "" /\ b.n # 0
  THEN Fraction(a.n * b.d, a.d * b.n)
  ELSE NaN

\* JavaScript truthiness, as tested by `if (value)`.
Truthy(v) ==
  CASE v.kind \in {"undefined", "null"} -> FALSE
    [] v.kind = "string" -> v.s # ""
    [] v.kind = "number" -> v.s = "" /\ v.n # 0
    [] OTHER -> TRUE

(***************************************************************************)
(* JavaScript objects: a function from the keys that are set to values.    *)
(***************************************************************************)
EmptyObj == [k \in {} |-> Undefined]

\* object.key: undefined when the key is not set.
Get(o, k) == IF k \in DOMAIN o THEN o[k] ELSE Undefined

Put(o, k, v) == [x \in (DOMAIN o) \cup {k} |-> IF x = k THEN v ELSE o[x]]

\* An object literal {k1: v1, ...}, given as a sequence of <<key, value>>.
RECURSIVE Obj(_)
Obj(pairs) ==
  IF pairs = <<>> THEN EmptyObj
  ELSE Put(Obj(Tail(pairs)), Head(pairs)[1], Head(pairs)[2])

\* An absent value: undefined or null.
Absent(v) == v.kind \in {"undefined", "null"}

\* The keys of an object that are rendered: a key whose value is absent is
\* omitted from the rendered object (no null placeholders).
Prune(o) == [k \in {x \in DOMAIN o : ~Absent(o[x])} |-> o[k]]

(***************************************************************************)
(* Controlled vocabulary.                                                  *)
(***************************************************************************)
VERBS ==
  [CREATED |-> "created", VIEWED |-> "viewed", SUBMITTED |-> "submitted",
   SCORED |-> "scored", COMMENTED |-> "commented"]

ACTIVITY_TYPES == [ASSESSMENT |-> [id |-> "activitytype/assessment"]]

CaliperDigitalResourceType ==
  [ASSIGNABLE_DIGITAL_RESOURCE |-> "AssignableDigitalResource"]

CaliperEntityType == [ATTEMPT |-> "Attempt", RESULT |-> "Result"]

CaliperEventType == [ASSESSMENT |-> "AssessmentEvent", VIEWED |-> "ViewEvent"]

SubmissionTypesKey ==
  "https://canvas.instructure.com/xapi/assignments/submissions_types"

(***************************************************************************)
(* StatementUtil: identifier derivation and the entity/person renderers.   *)
(***************************************************************************)
\* No identifier (a template without an object reference).
NoUuid == [platform |-> "", verb |-> "", parts |-> <<>>]

\* A deterministic identifier of (platform, verb, parts); distinct inputs
\* give distinct identifiers.
generateUuid(platform, verb, parts) ==
  [platform |-> platform, verb |-> verb, parts |-> parts]

getUserId(actor) == Get(actor, "id")

generatePerson(actor) ==
  [kind |-> "person", s |-> getUserId(actor).s, n |-> 0, d |-> 1]

generateDate(timestamp) == timestamp

\* No entity (a template without that entity).
NoEntity == [present |-> FALSE, attrs |-> EmptyObj]

\* An entity holds the attributes and extensions whose values are not absent.
generateEntity(opts, extensions) ==
  [present |-> TRUE,
   attrs |-> Prune([k \in (DOMAIN opts) \cup (DOMAIN extensions) |->
                      IF k \in DOMAIN opts THEN opts[k] ELSE extensions[k]])]

(***************************************************************************)
(* StatementUtil.validate                                                  *)
(***************************************************************************)
\* The strings that are syntactically valid absolute URIs.
UriStrings ==
  {"https://x/a1", "https://x/a2", "https://x/s1", "https://x/s2",
   "https://x/f1"}

\* A field counts as supplied when it is set and is neither null nor "".
Present(metadata, field) ==
  /\ field \in DOMAIN metadata
  /\ ~Absent(metadata[field])
  /\ metadata[field] # Str("")

HasType(v, type) ==
  CASE type = "string" -> v.kind = "string"
    [] type = "number" -> v.kind = "number"
    [] type = "date" -> v.kind = "date"
    [] type = "uri" -> v.kind = "string" /\ v.s \in UriStrings
    [] type = "array" -> v.kind = "array"
    [] OTHER -> FALSE

NoError == [field |-> "", reason |-> "none", expected |-> ""]

Rule(field, type, required) ==
  [field |-> field, type |-> type, required |-> required]

\* The first failure over the rules in their declared order, or NoError.
RECURSIVE validateRules(_, _)
validateRules(metadata, rules) ==
  IF rules = <<>> THEN NoError
  ELSE LET r == Head(rules) IN
       IF ~Present(metadata, r.field)
       THEN IF r.required
            THEN [field |-> r.field, reason |-> "missing", expected |-> r.type]
            ELSE validateRules(metadata, Tail(rules))
       ELSE IF ~HasType(metadata[r.field], r.type)
            THEN [field |-> r.field, reason |-> "wrong-type", expected |-> r.type]
            ELSE validateRules(metadata, Tail(rules))

validate(cfg, st, rules) == validateRules(st.metadata, rules)

(***************************************************************************)
(* The rule sets the builders hand to validate, in their declared order.   *)
(***************************************************************************)
createRules ==
  << Rule("id", "uri", TRUE), Rule("title", "string", TRUE),
     Rule("description", "string", FALSE), Rule("due_at", "date", FALSE),
     Rule("max_points", "number", FALSE),
     Rule("submission_types", "array", FALSE) >>

viewRules == << Rule("assignment", "uri", TRUE) >>

submitRules ==
  << Rule("id", "uri", TRUE), Rule("assignment", "uri", TRUE),
     Rule("submission", "string", FALSE) >>

gradeRulesMaxRequired ==
  << Rule("id", "uri", TRUE), Rule("assignment", "uri", TRUE),
     Rule("grade", "number", TRUE), Rule("grade_min", "number", FALSE),
     Rule("grade_max", "number", TRUE) >>

gradeRules ==
  << Rule("id", "uri", TRUE), Rule("assignment", "uri", TRUE),
     Rule("grade", "number", TRUE), Rule("grade_min", "number", FALSE),
     Rule("grade_max", "number", FALSE) >>

feedbackRules ==
  << Rule("id", "uri", TRUE), Rule("submission", "uri", TRUE),
     Rule("feedback", "string", TRUE) >>

(***************************************************************************)
(* The statement descriptors the builders hand to processStatement.        *)
(* XAPI.object is either an object literal (fields) or a derived           *)
(* identifier (ref); the nested XAPI result.score.* keys are written       *)
(* "score.raw", "score.min", "score.max", "score.scaled".                  *)
(***************************************************************************)
createDescriptorTimestampUuid(cfg, st) ==
  [verb |-> VERBS.CREATED,
   XAPI |->
     [uuid |-> << st.timestamp, Get(st.metadata, "id") >>,
      object |->
        [ref |-> NoUuid,
         fields |-> Obj(<<
           << "id", Get(st.metadata, "id") >>,
           << "type", Str(ACTIVITY_TYPES.ASSESSMENT.id) >>,
           << "name", Get(st.metadata, "title") >>,
           << "description", Get(st.metadata, "description") >>,
           << SubmissionTypesKey, Get(st.metadata, "submission_types") >> >>)],
      result |-> EmptyObj],
   CALIPER |->
     [type |-> Str(CaliperEventType.ASSESSMENT),
      object |-> generateEntity(
        Obj(<<
          << "type", Str(CaliperDigitalResourceType.ASSIGNABLE_DIGITAL_RESOURCE) >>,
          << "id", Get(st.metadata, "id") >>,
          << "name", Get(st.metadata, "title") >>,
          << "description", Get(st.metadata, "description") >>,
          << "dateToSubmit", Get(st.metadata, "due_at") >>,
          << "maxScore", Get(st.metadata, "max_points") >> >>),
        Obj(<< << SubmissionTypesKey, Get(st.metadata, "submission_types") >> >>)),
      generated |-> NoEntity,
      target |-> NoEntity]]

\* value || '' : the empty string in place of a falsy value.
OrEmpty(v) == IF Truthy(v) THEN v ELSE Str("")

createDescriptorEmptyDefaults(cfg, st) ==
  [verb |-> VERBS.CREATED,
   XAPI |->
     [uuid |-> << Get(st.metadata, "id") >>,
      object |->
        [ref |-> NoUuid,
         fields |-> Obj(<<
           << "id", Get(st.metadata, "id") >>,
           << "type", Str(ACTIVITY_TYPES.ASSESSMENT.id) >>,
           << "name", Get(st.metadata, "title") >>,
           << "description", OrEmpty(Get(st.metadata, "description")) >>,
           << SubmissionTypesKey, Get(st.metadata, "submission_types") >> >>)],
      result |-> EmptyObj],
   CALIPER |->
     [type |-> Str(CaliperEventType.ASSESSMENT),
      object |-> generateEntity(
        Obj(<<
          << "type", Str(CaliperDigitalResourceType.ASSIGNABLE_DIGITAL_RESOURCE) >>,
          << "id", Get(st.metadata, "id") >>,
          << "name", Get(st.metadata, "title") >>,
          << "description", OrEmpty(Get(st.metadata, "description")) >>,
          << "dateToSubmit", Get(st.metadata, "due_at") >>,
          << "maxScore", Get(st.metadata, "max_points") >> >>),
        Obj(<< << SubmissionTypesKey, Get(st.metadata, "submission_types") >> >>)),
      generated |-> NoEntity,
      target |-> NoEntity]]

createDescriptor(cfg, st) ==
  [verb |-> VERBS.CREATED,
   XAPI |->
     [uuid |-> << Get(st.metadata, "id") >>,
      object |->
        [ref |-> NoUuid,
         fields |-> Obj(<<
           << "id", Get(st.metadata, "id") >>,
           << "type", Str(ACTIVITY_TYPES.ASSESSMENT.id) >>,
           << "name", Get(st.metadata, "title") >>,
           << "description", Get(st.metadata, "description") >>,
           << SubmissionTypesKey, Get(st.metadata, "submission_types") >> >>)],
      result |-> EmptyObj],
   CALIPER |->
     [type |-> Str(CaliperEventType.ASSESSMENT),
      object |-> generateEntity(
        Obj(<<
          << "type", Str(CaliperDigitalResourceType.ASSIGNABLE_DIGITAL_RESOURCE) >>,
          << "id", Get(st.metadata, "id") >>,
          << "name", Get(st.metadata, "title") >>,
          << "description", Get(st.metadata, "description") >>,
          << "dateToSubmit", Get(st.metadata, "due_at") >>,
          << "maxScore", Get(st.metadata, "max_points") >> >>),
        Obj(<< << SubmissionTypesKey, Get(st.metadata, "submission_types") >> >>)),
      generated |-> NoEntity,
      target |-> NoEntity]]

viewDescriptorSwappedParts(cfg, st) ==
  [verb |-> VERBS.VIEWED,
   XAPI |->
     [uuid |-> << Get(st.metadata, "assignment"), st.timestamp,
                  getUserId(st.actor) >>,
      object |->
        [ref |-> generateUuid(cfg.platform, VERBS.CREATED,
                              << Get(st.metadata, "assignment") >>),
         fields |-> EmptyObj],
      result |-> EmptyObj],
   CALIPER |->
     [type |-> Str(CaliperEventType.VIEWED),
      object |-> generateEntity(
        Obj(<<
          << "type", Str(CaliperDigitalResourceType.ASSIGNABLE_DIGITAL_RESOURCE) >>,
          << "id", Get(st.metadata, "assignment") >> >>),
        EmptyObj),
      generated |-> NoEntity,
      target |-> NoEntity]]

viewDescriptorOwnVerb(cfg, st) ==
  [verb |-> VERBS.VIEWED,
   XAPI |->
     [uuid |-> << st.timestamp, Get(st.metadata, "assignment"),
                  getUserId(st.actor) >>,
      object |->
        [ref |-> generateUuid(cfg.platform, VERBS.VIEWED,
                              << Get(st.metadata, "assignment") >>),
         fields |-> EmptyObj],
      result |-> EmptyObj],
   CALIPER |->
     [type |-> Str(CaliperEventType.VIEWED),
      object |-> generateEntity(
        Obj(<<
          << "type", Str(CaliperDigitalResourceType.ASSIGNABLE_DIGITAL_RESOURCE) >>,
          << "id", Get(st.metadata, "assignment") >> >>),
        EmptyObj),
      generated |-> NoEntity,
      target |-> NoEntity]]

viewDescriptor(cfg, st) ==
  [verb |-> VERBS.VIEWED,
   XAPI |->
     [uuid |-> << st.timestamp, Get(st.metadata, "assignment"),
                  getUserId(st.actor) >>,
      object |->
        [ref |-> generateUuid(cfg.platform, VERBS.CREATED,
                              << Get(st.metadata, "assignment") >>),
         fields |-> EmptyObj],
      result |-> EmptyObj],
   CALIPER |->
     [type |-> Str(CaliperEventType.VIEWED),
      object |-> generateEntity(
        Obj(<<
          << "type", Str(CaliperDigitalResourceType.ASSIGNABLE_DIGITAL_RESOURCE) >>,
          << "id", Get(st.metadata, "assignment") >> >>),
        EmptyObj),
      generated |-> NoEntity,
      target |-> NoEntity]]

submitDescriptor(cfg, st) ==
  [verb |-> VERBS.SUBMITTED,
   XAPI |->
     [uuid |-> << Get(st.metadata, "id") >>,
      object |->
        [ref |-> generateUuid(cfg.platform, VERBS.CREATED,
                              << Get(st.metadata, "assignment") >>),
         fields |-> EmptyObj],
      result |-> Obj(<<
        << "completion", True >>,
        << "response", Get(st.metadata, "submission") >> >>)],
   CALIPER |->
     [type |-> Str(CaliperEventType.ASSESSMENT),
      object |-> generateEntity(
        Obj(<<
          << "type", Str(CaliperDigitalResourceType.ASSIGNABLE_DIGITAL_RESOURCE) >>,
          << "id", Get(st.metadata, "assignment") >> >>),
        EmptyObj),
      generated |-> generateEntity(
        Obj(<<
          << "type", Str(CaliperEntityType.ATTEMPT) >>,
          << "id", Get(st.metadata, "id") >>,
          << "description", Get(st.metadata, "submission") >>,
          << "assignable", Get(st.metadata, "assignment") >>,
          << "endedAtTime", generateDate(st.timestamp) >>,
          << "actor", generatePerson(st.actor) >> >>),
        EmptyObj),
      target |-> NoEntity]]

\* The score defaulting to zero: var scaled_score = 0.
scaled_score_zero(st) ==
  IF Truthy(Get(st.metadata, "grade_max"))
  THEN Divide(Get(st.metadata, "grade"), Get(st.metadata, "grade_max"))
  ELSE Num(0)

\* var scaled_score = null; if (grade_max) scaled_score = grade / grade_max;
scaled_score(st) ==
  IF Truthy(Get(st.metadata, "grade_max"))
  THEN Divide(Get(st.metadata, "grade"), Get(st.metadata, "grade_max"))
  ELSE Null

gradeDescriptor(cfg, st) ==
  [verb |-> VERBS.SCORED,
   XAPI |->
     [uuid |-> << Get(st.metadata, "id") >>,
      object |->
        [ref |-> generateUuid(cfg.platform, VERBS.SUBMITTED,
                              << Get(st.metadata, "id") >>),
         fields |-> EmptyObj],
      result |-> Obj(<<
        << "score.raw", Get(st.metadata, "grade") >>,
        << "score.min", Get(st.metadata, "grade_min") >>,
        << "score.max", Get(st.metadata, "grade_max") >>,
        << "score.scaled", scaled_score(st) >> >>)],
   CALIPER |->
     [type |-> Str(""),
      object |-> generateEntity(
        Obj(<<
          << "type", Str(CaliperEntityType.ATTEMPT) >>,
          << "id", Get(st.metadata, "id") >> >>),
        EmptyObj),
      generated |-> generateEntity(
        Obj(<<
          << "type", Str(CaliperEntityType.RESULT) >>,
          << "assignable", Get(st.metadata, "assignment") >>,
          << "totalScore", Get(st.metadata, "grade") >>,
          << "normalScore", scaled_score(st) >>,
          << "scoredBy", generatePerson(st.actor) >> >>),
        EmptyObj),
      target |-> NoEntity]]

feedbackDescriptor(cfg, st) ==
  [verb |-> VERBS.COMMENTED,
   XAPI |->
     [uuid |-> << Get(st.metadata, "id") >>,
      object |->
        [ref |-> generateUuid(cfg.platform, VERBS.SUBMITTED,
                              << Get(st.metadata, "submission") >>),
         fields |-> EmptyObj],
      result |-> Obj(<< << "response", Get(st.metadata, "feedback") >> >>)],
   CALIPER |->
     [type |-> Undefined,
      object |-> generateEntity(
        Obj(<<
          << "id", Get(st.metadata, "id") >>,
          << "description", Get(st.metadata, "feedback") >> >>),
        EmptyObj),
      generated |-> NoEntity,
      target |-> generateEntity(
        Obj(<<
          << "type", Str(CaliperEntityType.ATTEMPT) >>,
          << "id", Get(st.metadata, "id") >> >>),
        EmptyObj)]]

\* What a builder derives and renders itself while it builds its descriptor.
NoWork == [uuid |-> 0, entity |-> 0, person |-> 0, date |-> 0]

createWork == [uuid |-> 0, entity |-> 1, person |-> 0, date |-> 0]

viewWork == [uuid |-> 1, entity |-> 1, person |-> 0, date |-> 0]

submitWork == [uuid |-> 1, entity |-> 2, person |-> 1, date |-> 1]

gradeWork == [uuid |-> 1, entity |-> 2, person |-> 1, date |-> 0]

feedbackWork == [uuid |-> 1, entity |-> 2, person |-> 0, date |-> 0]

(***************************************************************************)
(* StatementUtil.processStatement and the transport collaborator.          *)
(***************************************************************************)
\* The dual-format statement rendered from a descriptor: the primary
\* identifier is derived from (config.platform, verb, XAPI.uuid) and heads
\* both payloads.
render(cfg, st, desc) ==
  LET id == generateUuid(cfg.platform, desc.verb, desc.XAPI.uuid) IN
  [id |-> id,
   flat |->
     [id |-> id,
      actor |-> getUserId(st.actor),
      verb |-> desc.verb,
      timestamp |-> st.timestamp,
      objectRef |-> desc.XAPI.object.ref,
      object |-> Prune(desc.XAPI.object.fields),
      result |-> Prune(desc.XAPI.result)],
   structured |->
     [id |-> id,
      type |-> desc.CALIPER.type,
      actor |-> generatePerson(st.actor),
      action |-> desc.verb,
      eventTime |-> st.timestamp,
      object |-> desc.CALIPER.object,
      generated |-> desc.CALIPER.generated,
      target |-> desc.CALIPER.target]]

TransportError == [field |-> "", reason |-> "transport", expected |-> ""]

\* One invocation of the caller's callback: callback(error) has one
\* argument, callback(null, result) has two.
CallbackError(err) == [error |-> err, result |-> "none", nargs |-> 1]

CallbackResult(res) == [error |-> NoError, result |-> res, nargs |-> 2]

\* callback(validationError); without a callback the call throws.
callbackWith(c, in, verr) ==
  /\ callbackLog' = [callbackLog EXCEPT
                       ![c] = IF in.callback THEN Append(@, CallbackError(verr))
                              ELSE @]
  /\ pc' = [pc EXCEPT ![c] = IF in.callback THEN "done" ELSE "threw"]

\* processStatement(config, statement, descriptor, callback): render the
\* statement and hand it to the transport; the callback waits for the
\* transport's completion signal.
processStatement(c, in, desc) ==
  /\ processed' = [processed EXCEPT ![c] = Append(@, desc)]
  /\ transport' = [transport EXCEPT
                     ![c] = Append(@, render(in.config, in.statement, desc))]

\* The transport's completion signal for call c.
transportComplete(c) ==
  /\ pc[c] = "sent"
  /\ \E ok \in BOOLEAN :
       callbackLog' = [callbackLog EXCEPT
                         ![c] = IF ~args[c].callback THEN @
                                ELSE IF ok THEN Append(@, CallbackResult("stored"))
                                ELSE Append(@, CallbackError(TransportError))]
  /\ pc' = [pc EXCEPT ![c] = "done"]
  /\ UNCHANGED <<op, args, config, statement, validationError, work,
                 processed, transport>>

(***************************************************************************)
(* The builders.  A call c is one invocation operation(config, statement,  *)
(* callback); in.callback tells whether a callback was passed.             *)
(***************************************************************************)
\* What every builder does with its arguments: nothing is assigned to the
\* caller's config or statement.
enter(c, name, in, verr) ==
  /\ op' = [op EXCEPT ![c] = name]
  /\ args' = [args EXCEPT ![c] = in]
  /\ config' = [config EXCEPT ![c] = in.config]
  /\ statement' = [statement EXCEPT ![c] = in.statement]
  /\ validationError' = [validationError EXCEPT ![c] = verr]

\* if (validationError) { return callback(validationError); }
\* StatementUtil.processStatement(config, statement, {...}, callback);
build(c, name, in, rules, desc, w) ==
  LET verr == validate(in.config, in.statement, rules) IN
  /\ enter(c, name, in, verr)
  /\ IF verr # NoError
     THEN /\ callbackWith(c, in, verr)
          /\ UNCHANGED <<work, processed, transport>>
     ELSE /\ work' = [work EXCEPT ![c] = w]
          /\ processStatement(c, in, desc)
          /\ pc' = [pc EXCEPT ![c] = "sent"]
          /\ UNCHANGED callbackLog

\* The same without the return: the callback gets the validation error and
\* the builder goes on to processStatement.
buildFallThrough(c, name, in, rules, desc, w) ==
  LET verr == validate(in.config, in.statement, rules) IN
  /\ enter(c, name, in, verr)
  /\ callbackLog' = [callbackLog EXCEPT
                       ![c] = IF verr # NoError /\ in.callback
                              THEN Append(@, CallbackError(verr)) ELSE @]
  /\ work' = [work EXCEPT ![c] = w]
  /\ processStatement(c, in, desc)
  /\ pc' = [pc EXCEPT ![c] = "sent"]

create(c, inputs) ==
  /\ pc[c] = "idle"
  /\ \E in \in inputs :
    build(c, "create", in, createRules,
          createDescriptor(in.config, in.statement), createWork)

view(c, inputs) ==
  /\ pc[c] = "idle"
  /\ \E in \in inputs :
    build(c, "view", in, viewRules,
          viewDescriptor(in.config, in.statement), viewWork)

submitFallThrough(c, inputs) ==
  /\ pc[c] = "idle"
  /\ \E in \in inputs :
    buildFallThrough(c, "submit", in, submitRules,
                     submitDescriptor(in.config, in.statement), submitWork)

submit(c, inputs) ==
  /\ pc[c] = "idle"
  /\ \E in \in inputs :
    build(c, "submit", in, submitRules,
          submitDescriptor(in.config, in.statement), submitWork)

gradeFallThrough(c, inputs) ==
  /\ pc[c] = "idle"
  /\ \E in \in inputs :
    buildFallThrough(c, "grade", in, gradeRules,
                     gradeDescriptor(in.config, in.statement), gradeWork)

\* grade keeping its derived score on the caller's statement:
\* statement.metadata.scaled_score = scaled_score.
gradeStoresScore(c, inputs) ==
  /\ pc[c] = "idle"
  /\ \E in \in inputs :
    LET verr == validate(in.config, in.statement, gradeRules) IN
    /\ op' = [op EXCEPT ![c] = "grade"]
    /\ args' = [args EXCEPT ![c] = in]
    /\ config' = [config EXCEPT ![c] = in.config]
    /\ validationError' = [validationError EXCEPT ![c] = verr]
    /\ IF verr # NoError
       THEN /\ callbackWith(c, in, verr)
            /\ statement' = [statement EXCEPT ![c] = in.statement]
            /\ UNCHANGED <<work, processed, transport>>
       ELSE /\ statement' =
               [statement EXCEPT
                  ![c] = [in.statement EXCEPT
                            !.metadata = Put(@, "scaled_score",
                                             scaled_score(in.statement))]]
            /\ work' = [work EXCEPT ![c] = gradeWork]
            /\ processStatement(c, in, gradeDescriptor(in.config, in.statement))
            /\ pc' = [pc EXCEPT ![c] = "sent"]
            /\ UNCHANGED callbackLog

grade(c, inputs) ==
  /\ pc[c] = "idle"
  /\ \E in \in inputs :
    build(c, "grade", in, gradeRules,
          gradeDescriptor(in.config, in.statement), gradeWork)

feedback(c, inputs) ==
  /\ pc[c] = "idle"
  /\ \E in \in inputs :
    build(c, "feedback", in, feedbackRules,
          feedbackDescriptor(in.config, in.statement), feedbackWork)

(***************************************************************************)
(* Callers.  Spec explores one call over a wide range of metadata (every   *)
(* declared field absent, well typed, ill typed, null or empty, and an     *)
(* undeclared field); SpecPair explores MaxCalls concurrent calls over     *)
(* well-formed statements that differ in one input at a time.              *)
(***************************************************************************)
MaxCalls == 2

Essay == Str("Essay")

Uri(x) == Str(x)

Acme == [platform |-> "acme"]

User(x) == Obj(<< << "id", Str(x) >> >>)

\* All objects over the listed fields: each field is absent or takes one
\* of its candidate values.  fields is a sequence of <<field, candidates>>.
RECURSIVE Objects(_)
Objects(fields) ==
  IF fields = <<>> THEN {EmptyObj}
  ELSE LET rest == Objects(Tail(fields)) IN
       rest \cup {Put(m, Head(fields)[1], v) : m \in rest, v \in Head(fields)[2]}

Undeclared == << "note", {Num(45)} >>

RichFields(name) ==
  CASE name = "create" ->
         << << "id", {Uri("https://x/a1"), Essay, Null} >>,
            << "title", {Essay, Str(""), Num(45)} >>,
            << "description", {Str("Write an essay"), Num(45)} >>,
            << "due_at", {DateOf("2026-01-01"), Essay} >>,
            << "max_points", {Num(50), Essay} >>,
            << "submission_types", {ArrayOf("online_upload"), Essay} >>,
            Undeclared >>
    [] name = "view" ->
         << << "assignment", {Uri("https://x/a1"), Uri("https://x/a2"), Essay,
                              Null, Str(""), Num(45)} >>,
            Undeclared >>
    [] name = "submit" ->
         << << "id", {Uri("https://x/s1"), Essay, Null} >>,
            << "assignment", {Uri("https://x/a1"), Essay} >>,
            << "submission", {Str("My answer"), Str(""), Num(45)} >>,
            Undeclared >>
    [] name = "grade" ->
         << << "id", {Uri("https://x/s1"), Essay} >>,
            << "assignment", {Uri("https://x/a1"), Essay} >>,
            << "grade", {Num(45), Num(0), Essay, Null} >>,
            << "grade_min", {Num(0), Essay} >>,
            << "grade_max", {Num(50), Num(0), Num(-50), Essay, Null, Str("")} >>,
            Undeclared >>
    [] name = "feedback" ->
         << << "id", {Uri("https://x/f1"), Uri("https://x/s1"), Essay} >>,
            << "submission", {Uri("https://x/s1"), Uri("https://x/f1"), Essay} >>,
            << "feedback", {Str("Well done"), Str(""), Num(45)} >>,
            Undeclared >>

RichInputs(name) ==
  {[config |-> Acme,
    statement |-> [actor |-> User("u1"), timestamp |-> DateOf("T1"),
                   metadata |-> m],
    callback |-> cb] : m \in Objects(RichFields(name)), cb \in BOOLEAN}

\* A well-formed base statement per operation, and the base with one input
\* changed (<<what, key, value>>): the platform, the timestamp, the actor,
\* or one metadata field.
BaseMetadata(name) ==
  CASE name = "create" ->
         Obj(<< << "id", Uri("https://x/a1") >>, << "title", Essay >> >>)
    [] name = "view" -> Obj(<< << "assignment", Uri("https://x/a1") >> >>)
    [] name = "submit" ->
         Obj(<< << "id", Uri("https://x/s1") >>,
                << "assignment", Uri("https://x/a1") >> >>)
    [] name = "grade" ->
         Obj(<< << "id", Uri("https://x/s1") >>,
                << "assignment", Uri("https://x/a1") >>,
                << "grade", Num(45) >>, << "grade_max", Num(50) >> >>)
    [] name = "feedback" ->
         Obj(<< << "id", Uri("https://x/f1") >>,
                << "submission", Uri("https://x/s1") >>,
                << "feedback", Str("Well done") >> >>)

Changes(name) ==
  CASE name = "create" ->
         {<< "platform", "", Str("beta") >>, << "timestamp", "", DateOf("T2") >>,
          << "actor", "", Str("u2") >>,
          << "metadata", "id", Uri("https://x/a2") >>,
          << "metadata", "title", Str("Quiz") >>,
          << "metadata", "title", Undefined >>}
    [] name = "view" ->
         {<< "platform", "", Str("beta") >>, << "timestamp", "", DateOf("T2") >>,
          << "actor", "", Str("u2") >>,
          << "metadata", "assignment", Uri("https://x/a2") >>}
    [] name = "submit" ->
         {<< "timestamp", "", DateOf("T2") >>,
          << "metadata", "id", Uri("https://x/s2") >>,
          << "metadata", "assignment", Uri("https://x/a2") >>}
    [] name = "grade" ->
         {<< "metadata", "id", Uri("https://x/s2") >>,
          << "metadata", "grade", Num(40) >>}
    [] name = "feedback" ->
         {<< "metadata", "submission", Uri("https://x/s2") >>,
          << "metadata", "feedback", Str("Redo") >>}

\* metadata with key set to value, or without key when value is undefined.
With(metadata, key, value) ==
  IF value = Undefined
  THEN [k \in (DOMAIN metadata) \ {key} |-> metadata[k]]
  ELSE Put(metadata, key, value)

Input(cfg, actor, timestamp, metadata) ==
  [config |-> cfg,
   statement |-> [actor |-> actor, timestamp |-> timestamp,
                  metadata |-> metadata],
   callback |-> TRUE]

Changed(name, ch) ==
  Input(IF ch[1] = "platform" THEN [platform |-> ch[3].s] ELSE Acme,
        IF ch[1] = "actor" THEN User(ch[3].s) ELSE User("u1"),
        IF ch[1] = "timestamp" THEN ch[3] ELSE DateOf("T1"),
        IF ch[1] = "metadata" THEN With(BaseMetadata(name), ch[2], ch[3])
        ELSE BaseMetadata(name))

PairInputs(name) ==
  {Input(Acme, User("u1"), DateOf("T1"), BaseMetadata(name))}
  \cup {Changed(name, ch) : ch \in Changes(name)}

NoInput ==
  [config |-> [platform |-> ""],
   statement |-> [actor |-> EmptyObj, timestamp |-> Undefined,
                  metadata |-> EmptyObj],
   callback |-> FALSE]

InitCalls(n) ==
  /\ pc = [c \in 1..n |-> "idle"]
  /\ op = [c \in 1..n |-> "none"]
  /\ args = [c \in 1..n |-> NoInput]
  /\ config = [c \in 1..n |-> NoInput.config]
  /\ statement = [c \in 1..n |-> NoInput.statement]
  /\ validationError = [c \in 1..n |-> NoError]
  /\ work = [c \in 1..n |-> NoWork]
  /\ processed = [c \in 1..n |-> <<>>]
  /\ transport = [c \in 1..n |-> <<>>]
  /\ callbackLog = [c \in 1..n |-> <<>>]

Calls == DOMAIN pc

SingleCall == {1}

Init == InitCalls(Cardinality(SingleCall))

Next ==
  \E c \in SingleCall :
    \/ create(c, RichInputs("create"))
    \/ view(c, RichInputs("view"))
    \/ submit(c, RichInputs("submit"))
    \/ grade(c, RichInputs("grade"))
    \/ feedback(c, RichInputs("feedback"))
    \/ transportComplete(c)

Spec == Init /\ [][Next]_vars

InitPair == InitCalls(MaxCalls)

NextPair ==
  \E c \in 1..MaxCalls :
    \/ create(c, PairInputs("create"))
    \/ view(c, PairInputs("view"))
    \/ submit(c, PairInputs("submit"))
    \/ grade(c, PairInputs("grade"))
    \/ feedback(c, PairInputs("feedback"))
    \/ transportComplete(c)

SpecPair == InitPair /\ [][NextPair]_vars

(***************************************************************************)
(* Properties.                                                             *)
(***************************************************************************)
Invoked(c) == pc[c] # "idle"

Dispatched(c) == Len(transport[c]) > 0

Metadata(c) == args[c].statement.metadata

Platform(c) == args[c].config.platform

Flat(c) == transport[c][1].flat

Structured(c) == transport[c][1].structured

DeclaredRules(name) ==
  CASE name = "create" ->
         {Rule("id", "uri", TRUE), Rule("title", "string", TRUE),
          Rule("description", "string", FALSE), Rule("due_at", "date", FALSE),
          Rule("max_points", "number", FALSE),
          Rule("submission_types", "array", FALSE)}
    [] name = "view" -> {Rule("assignment", "uri", TRUE)}
    [] name = "submit" ->
         {Rule("id", "uri", TRUE), Rule("assignment", "uri", TRUE),
          Rule("submission", "string", FALSE)}
    [] name = "grade" ->
         {Rule("id", "uri", TRUE), Rule("assignment", "uri", TRUE),
          Rule("grade", "number", TRUE), Rule("grade_min", "number", FALSE),
          Rule("grade_max", "number", FALSE)}
    [] name = "feedback" ->
         {Rule("id", "uri", TRUE), Rule("submission", "uri", TRUE),
          Rule("feedback", "string", TRUE)}
    [] OTHER -> {}

Satisfies(metadata, rules) ==
  \A r \in rules :
    /\ r.required => Present(metadata, r.field)
    /\ Present(metadata, r.field) => HasType(metadata[r.field], r.type)

\* C3: a call reaches processStatement if and only if its metadata
\* satisfies the operation's declared rule set: every required field is
\* supplied with the declared type, every supplied optional field has the
\* declared type, and undeclared fields do not matter.
ProceedsIffRulesSatisfied ==
  \A c \in Calls :
    Invoked(c) =>
      (Len(processed[c]) = 1 <=> Satisfies(Metadata(c), DeclaredRules(op[c])))

GradeWithoutMaxProceeds ==
  \E c \in Calls :
    /\ op[c] = "grade" /\ Len(processed[c]) = 1
    /\ "grade_max" \notin DOMAIN Metadata(c)
    /\ "grade_min" \notin DOMAIN Metadata(c)
    /\ "note" \in DOMAIN Metadata(c)

\* C4: in grade, the normalized score is grade / grade_max exactly when
\* grade_max is present and non-zero (45 / 50 is 0.9), the same in the flat
\* result.score.scaled and the structured normalScore; when grade_max is
\* absent or zero the normalized score is absent from both payloads,
\* neither zero nor a null placeholder.
NormalizedScoreDerived ==
  \A c \in Calls :
    (op[c] = "grade" /\ Dispatched(c)) =>
      LET max == Get(Metadata(c), "grade_max")
          raw == Get(Metadata(c), "grade")
      IN IF max.kind = "number" /\ max.n # 0
         THEN /\ Get(Flat(c).result, "score.scaled") = Divide(raw, max)
              /\ Get(Structured(c).generated.attrs, "normalScore") = Divide(raw, max)
              /\ (raw = Num(45) /\ max = Num(50)) =>
                   Get(Flat(c).result, "score.scaled") = Fraction(9, 10)
         ELSE /\ "score.scaled" \notin DOMAIN Flat(c).result
              /\ "normalScore" \notin DOMAIN Structured(c).generated.attrs

GradedFortyFiveOfFifty ==
  \E c \in Calls :
    /\ op[c] = "grade" /\ Dispatched(c)
    /\ Get(Metadata(c), "grade") = Num(45)
    /\ Get(Metadata(c), "grade_max") = Num(50)
    /\ Flat(c).result["score.scaled"] = Fraction(9, 10)
    /\ Structured(c).generated.attrs["normalScore"] = Fraction(9, 10)

PrimaryVerb(name) ==
  CASE name = "create" -> VERBS.CREATED
    [] name = "submit" -> VERBS.SUBMITTED
    [] name = "grade" -> VERBS.SCORED
    [] name = "feedback" -> VERBS.COMMENTED
    [] OTHER -> ""

\* C5: for create, submit, grade and feedback the primary identifier is
\* derived from (config.platform, the operation's verb, [metadata.id]) and
\* nothing else: two calls of one operation with the same config and the
\* same metadata.id carry the same primary identifier in both formats,
\* whatever the other metadata, the actor or the timestamp.
ResubmissionIdempotent ==
  \A c1 \in Calls :
    (Dispatched(c1) /\ op[c1] \in {"create", "submit", "grade", "feedback"}) =>
      /\ Flat(c1).id =
           generateUuid(Platform(c1), PrimaryVerb(op[c1]),
                        << Get(Metadata(c1), "id") >>)
      /\ Structured(c1).id = Flat(c1).id
      /\ \A c2 \in Calls :
           (/\ Dispatched(c2) /\ op[c2] = op[c1]
            /\ args[c2].config = args[c1].config
            /\ Get(Metadata(c2), "id") = Get(Metadata(c1), "id")) =>
             /\ Flat(c2).id = Flat(c1).id
             /\ Structured(c2).id = Structured(c1).id

CreateResentLater ==
  \E c1, c2 \in Calls :
    /\ c1 # c2 /\ op[c1] = "create" /\ op[c2] = "create"
    /\ Dispatched(c1) /\ Dispatched(c2)
    /\ args[c1].config = args[c2].config
    /\ Get(Metadata(c1), "id") = Get(Metadata(c2), "id")
    /\ args[c1].statement.timestamp # args[c2].statement.timestamp
    /\ Flat(c1).id = Flat(c2).id

ViewParts(c) ==
  << args[c].statement.timestamp, Get(Metadata(c), "assignment"),
     getUserId(args[c].statement.actor) >>

\* C6: for view the flat identifier parts are exactly
\* [timestamp, metadata.assignment, user id of the actor], derived with
\* verb VIEWED; two views with the same platform, timestamp, assignment and
\* actor carry the same flat identifier, and two views that differ in the
\* timestamp, the assignment or the actor's user id have different parts.
ViewIdentifierParts ==
  \A c1 \in Calls :
    (Dispatched(c1) /\ op[c1] = "view") =>
      /\ processed[c1][1].XAPI.uuid = ViewParts(c1)
      /\ processed[c1][1].verb = VERBS.VIEWED
      /\ Flat(c1).id = generateUuid(Platform(c1), VERBS.VIEWED, ViewParts(c1))
      /\ \A c2 \in Calls :
           (Dispatched(c2) /\ op[c2] = "view") =>
             /\ (Platform(c1) = Platform(c2) /\ ViewParts(c1) = ViewParts(c2)) =>
                  Flat(c1).id = Flat(c2).id
             /\ ViewParts(c1) # ViewParts(c2) =>
                  processed[c1][1].XAPI.uuid # processed[c2][1].XAPI.uuid

ViewedTwiceAndLater ==
  \E c1, c2 \in Calls :
    /\ c1 # c2 /\ op[c1] = "view" /\ op[c2] = "view"
    /\ Dispatched(c1) /\ Dispatched(c2)
    /\ Platform(c1) = Platform(c2)
    /\ Get(Metadata(c1), "assignment") = Get(Metadata(c2), "assignment")
    /\ args[c1].statement.actor = args[c2].statement.actor
    /\ args[c1].statement.timestamp # args[c2].statement.timestamp
    /\ Flat(c1).id # Flat(c2).id

\* C7: a create call that passes validation renders the object id
\* metadata.id and the name metadata.title in both payloads, and every
\* optional field absent from the metadata is absent as a key from the
\* flat object and from the structured entity.
CreateRendersAbsenceAsAbsence ==
  \A c \in Calls :
    (op[c] = "create" /\ Dispatched(c)) =>
      LET m == Metadata(c)
          flat == Flat(c).object
          entity == Structured(c).object.attrs
      IN /\ Get(flat, "id") = m["id"]
         /\ Get(flat, "name") = m["title"]
         /\ Get(entity, "id") = m["id"]
         /\ Get(entity, "name") = m["title"]
         /\ "description" \notin DOMAIN m =>
              "description" \notin (DOMAIN flat) \cup (DOMAIN entity)
         /\ "due_at" \notin DOMAIN m =>
              {"due_at", "dateToSubmit"} \cap ((DOMAIN flat) \cup (DOMAIN entity)) = {}
         /\ "max_points" \notin DOMAIN m =>
              {"max_points", "maxScore"} \cap ((DOMAIN flat) \cup (DOMAIN entity)) = {}
         /\ "submission_types" \notin DOMAIN m =>
              {"submission_types", SubmissionTypesKey}
                \cap ((DOMAIN flat) \cup (DOMAIN entity)) = {}

CreateWithTitleOnly ==
  \E c \in Calls :
    /\ op[c] = "create" /\ Dispatched(c)
    /\ DOMAIN Metadata(c) = {"id", "title"}
    /\ Flat(c).object["name"] = Essay
    /\ DOMAIN Structured(c).object.attrs = {"type", "id", "name"}

\* C8: no operation modifies its inputs: after a call, rejected or
\* dispatched, the caller's statement and config are what was passed in;
\* and a call's outcome depends on its own inputs only, not on other calls.
InputsNeverModified ==
  /\ \A c \in Calls :
       Invoked(c) =>
         /\ config[c] = args[c].config
         /\ statement[c] = args[c].statement
  /\ \A c1, c2 \in Calls :
       (Invoked(c1) /\ Invoked(c2) /\ op[c1] = op[c2] /\ args[c1] = args[c2]) =>
         /\ validationError[c1] = validationError[c2]
         /\ processed[c1] = processed[c2]
         /\ transport[c1] = transport[c2]

GradedAndRejectedSideBySide ==
  \E c1, c2 \in Calls :
    /\ op[c1] = "grade" /\ Dispatched(c1) /\ pc[c1] = "done"
    /\ statement[c1].metadata["grade"] = Num(45)
    /\ op[c2] = "create" /\ pc[c2] = "done" /\ validationError[c2] # NoError
    /\ statement[c2] = args[c2].statement

\* C9: the flat object reference of a statement is the primary identifier
\* of the earlier statement it refers to on the same platform: view and
\* submit refer to the create of metadata.assignment, grade to the submit
\* of metadata.id, feedback to the submit of metadata.submission.
ObjectLinksToEarlierStatement ==
  \A c2 \in Calls :
    Dispatched(c2) =>
      /\ op[c2] \in {"view", "submit"} =>
           Flat(c2).objectRef =
             generateUuid(Platform(c2), VERBS.CREATED,
                          << Get(Metadata(c2), "assignment") >>)
      /\ op[c2] = "grade" =>
           Flat(c2).objectRef =
             generateUuid(Platform(c2), VERBS.SUBMITTED, << Get(Metadata(c2), "id") >>)
      /\ op[c2] = "feedback" =>
           Flat(c2).objectRef =
             generateUuid(Platform(c2), VERBS.SUBMITTED,
                          << Get(Metadata(c2), "submission") >>)
      /\ \A c1 \in Calls :
           (Dispatched(c1) /\ Platform(c1) = Platform(c2)) =>
             /\ (/\ op[c1] = "create" /\ op[c2] \in {"view", "submit"}
                 /\ Get(Metadata(c2), "assignment") = Get(Metadata(c1), "id")) =>
                  Flat(c2).objectRef = Flat(c1).id
             /\ (/\ op[c1] = "submit" /\ op[c2] = "grade"
                 /\ Get(Metadata(c2), "id") = Get(Metadata(c1), "id")) =>
                  Flat(c2).objectRef = Flat(c1).id
             /\ (/\ op[c1] = "submit" /\ op[c2] = "feedback"
                 /\ Get(Metadata(c2), "submission") = Get(Metadata(c1), "id")) =>
                  Flat(c2).objectRef = Flat(c1).id

ViewOfCreatedAssignment ==
  \E c1, c2 \in Calls :
    /\ op[c1] = "create" /\ op[c2] = "view"
    /\ Dispatched(c1) /\ Dispatched(c2)
    /\ Platform(c1) = Platform(c2)
    /\ Get(Metadata(c2), "assignment") = Get(Metadata(c1), "id")
    /\ Flat(c2).objectRef = Flat(c1).id

\* C10: in feedback both formats refer to the same submission: the
\* structured target entity (kind ATTEMPT) carries metadata.submission, the
\* submission the flat object reference is derived from, while metadata.id
\* identifies the feedback itself (structured object, flat identifier
\* parts).
FeedbackTargetsSubmission ==
  \A c \in Calls :
    (op[c] = "feedback" /\ Dispatched(c)) =>
      /\ Get(Structured(c).target.attrs, "type") = Str(CaliperEntityType.ATTEMPT)
      /\ Get(Structured(c).target.attrs, "id") = Get(Metadata(c), "submission")
      /\ Flat(c).objectRef =
           generateUuid(Platform(c), VERBS.SUBMITTED,
                        << Get(Metadata(c), "submission") >>)
      /\ Get(Structured(c).object.attrs, "id") = Get(Metadata(c), "id")
      /\ processed[c][1].XAPI.uuid = << Get(Metadata(c), "id") >>

====
